---------------------------- MODULE Spec2Model ----------------------------
(***************************************************************************)
(* A model of the StormpathUser model of loopback-stormpath                *)
(* (common/models/stormpath-user.js): credential normalisation, the        *)
(* login / logout / confirm state machines and access-token issuance,      *)
(* against an Account Directory and a Session Store that answer            *)
(* asynchronously.                                                         *)
(*                                                                         *)
(* JavaScript values.  A string is a sequence of one-character strings.    *)
(* An optional value (a property that may be undefined) is a sequence of   *)
(* length at most one: None is undefined, Some(x) holds x.  Truthiness is  *)
(* JavaScript's: undefined, the empty string and 0 are falsy.              *)
(***************************************************************************)
EXTENDS Integers, Sequences, FiniteSets, TLC

VARIABLES settings, accounts, tokens, nextId, calls, norm

vars == <<settings, accounts, tokens, nextId, calls, norm>>

None == <<>>

Some(x) == <<x>>

TruthyStr(v) == v # None /\ v[1] # <<>>

TruthyNum(v) == v # None /\ v[1] # 0

Min(a, b) == IF a <= b THEN a ELSE b

-----------------------------------------------------------------------------
(* Bounds of the model *)

\* longest email / username string drawn for normalizeCredentials
MaxLen == 3

\* number of session tokens the Session Store hands out in one behaviour
MaxTokens == 1

-----------------------------------------------------------------------------
(* Program constants *)

DEFAULT_TTL == 1209600

DEFAULT_MAX_TTL == 31556926

-----------------------------------------------------------------------------
(* splitPrincipal and normalizeCredentials *)

\* String.prototype.indexOf: the 0-based index of the first occurrence, or -1
IndexOf(name, d) ==
  LET hits == {i \in 0..(Len(name) - Len(d)) : SubSeq(name, i + 1, i + Len(d)) = d}
  IN  IF hits = {} THEN 0 - 1
      ELSE CHOOSE i \in hits : \A j \in hits : i <= j

\* String.prototype.substring(from, to) for 0 <= from <= to <= length
Substring(name, from, to) == SubSeq(name, from + 1, to)

\* a faulty variant of splitPrincipal: the delimiter itself is kept in the principal
splitPrincipal_keepDelimiter(name, realmDelimiter) ==
  IF ~TruthyStr(realmDelimiter) THEN <<None, name>>
  ELSE LET index == IndexOf(name, realmDelimiter[1])
       IN  IF index # 0 - 1
           THEN <<Some(Substring(name, 0, index)),
                  Substring(name, index, Len(name))>>
           ELSE <<None, name>>

\* parts[0] of the code is component 1 here (null is None), parts[1] component 2
splitPrincipal(name, realmDelimiter) ==
  IF ~TruthyStr(realmDelimiter) THEN <<None, name>>
  ELSE LET index == IndexOf(name, realmDelimiter[1])
       IN  IF index # 0 - 1
           THEN <<Some(Substring(name, 0, index)),
                  Substring(name, index + Len(realmDelimiter[1]), Len(name))>>
           ELSE <<None, name>>

EmptyQuery == [email |-> None, username |-> None, realm |-> None]

\* a faulty variant of normalizeCredentials: the realm is copied also when none is required
normalizeCredentials_realmAlways(credentials, realmRequired, realmDelimiter) ==
  LET q0 == IF TruthyStr(credentials.realm)
            THEN [EmptyQuery EXCEPT !.realm = credentials.realm]
            ELSE EmptyQuery
  IN  IF TruthyStr(credentials.email)
      THEN [q0 EXCEPT !.email = credentials.email]
      ELSE IF TruthyStr(credentials.username)
      THEN [q0 EXCEPT !.username = credentials.username]
      ELSE q0

normalizeCredentials(credentials, realmRequired, realmDelimiter) ==
  IF ~realmRequired
  THEN IF TruthyStr(credentials.email)
       THEN [EmptyQuery EXCEPT !.email = credentials.email]
       ELSE IF TruthyStr(credentials.username)
       THEN [EmptyQuery EXCEPT !.username = credentials.username]
       ELSE EmptyQuery
  ELSE LET q0 == IF TruthyStr(credentials.realm)
                 THEN [EmptyQuery EXCEPT !.realm = credentials.realm]
                 ELSE EmptyQuery
       IN  IF TruthyStr(credentials.email)
           THEN LET parts == splitPrincipal(credentials.email[1], realmDelimiter)
                IN  [q0 EXCEPT !.email = Some(parts[2]),
                               !.realm = IF TruthyStr(parts[1]) THEN parts[1] ELSE @]
           ELSE IF TruthyStr(credentials.username)
           THEN LET parts == splitPrincipal(credentials.username[1], realmDelimiter)
                IN  [q0 EXCEPT !.username = Some(parts[2]),
                               !.realm = IF TruthyStr(parts[1]) THEN parts[1] ELSE @]
           ELSE q0

-----------------------------------------------------------------------------
(* Errors: an Error object with its message, statusCode and code properties *)

\* message is the text, followed by the value appended to it if there is one
Err(message, statusCode, code) ==
  [message |-> <<message>>, statusCode |-> Some(statusCode), code |-> Some(code)]

err1 == Err("realm is required", 400, "REALM_REQUIRED")

err2 == Err("username or email is required", 400, "USERNAME_EMAIL_REQUIRED")

defaultError == Err("login failed", 401, "LOGIN_FAILED")

errNotVerified ==
  Err("login failed as the email has not been verified", 401,
      "LOGIN_FAILED_EMAIL_NOT_VERIFIED")

\* new Error('could not find accessToken'): neither statusCode nor code is set
errTokenNotFound ==
  [message |-> <<"could not find accessToken">>, statusCode |-> None, code |-> None]

\* the errors the collaborators may report through a callback's err argument
findOneError == Err("directory unavailable", 503, "DIRECTORY_ERROR")

compareError == Err("invalid hash", 500, "COMPARE_ERROR")

createError == Err("token store unavailable", 503, "STORE_CREATE_ERROR")

findByIdError == Err("token store unavailable", 503, "STORE_FIND_ERROR")

destroyError == Err("token store unavailable", 503, "STORE_DESTROY_ERROR")

findAccountError == Err("directory unavailable", 503, "DIRECTORY_FIND_ERROR")

saveError == Err("directory unavailable", 503, "DIRECTORY_SAVE_ERROR")

\* new Error('Invalid token: ' + token)
errInvalidToken(token) ==
  [message |-> <<"Invalid token: ", token>>, statusCode |-> Some(400),
   code |-> Some("INVALID_TOKEN")]

\* new Error('StormpathUser not found: ' + uid)
errUserNotFound(uid) ==
  [message |-> <<"StormpathUser not found: ", uid>>, statusCode |-> Some(404),
   code |-> Some("USER_NOT_FOUND")]

-----------------------------------------------------------------------------
(* Settings *)

\* the settings as configured, before setup() fills in the defaults
RawSettings ==
  {raw \in [realmRequired : BOOLEAN,
            realmDelimiter : {None, Some(<<"/">>)},
            emailVerificationRequired : BOOLEAN,
            ttl : {None, Some(50000000)},
            maxTTL : {None, Some(20000000)}] :
     (raw.ttl = None) <=> (raw.maxTTL = None)}

\* StormpathUser.setup: maxTTL and ttl default when unset (or 0)
setup(raw) ==
  [raw EXCEPT !.maxTTL = IF TruthyNum(raw.maxTTL) THEN raw.maxTTL[1] ELSE DEFAULT_MAX_TTL,
              !.ttl = IF TruthyNum(raw.ttl) THEN raw.ttl[1] ELSE DEFAULT_TTL]

\* a faulty variant of createAccessToken: the requested ttl is not clamped
createAccessToken_noClamp(ttl, st) ==
  IF TruthyNum(ttl) THEN ttl[1] ELSE Min(st.ttl, st.maxTTL)

\* createAccessToken(ttl, options, cb): the ttl of the token it asks the store
\* for.  It is set on User.prototype, taken here to be the prototype the
\* StormpathUser instances inherit from; login calls it with three arguments
\* (its length is 3), so that ttl is credentials.ttl.
createAccessToken(ttl, st) ==
  Min(IF TruthyNum(ttl) THEN ttl[1] ELSE st.ttl, st.maxTTL)

-----------------------------------------------------------------------------
(* The Account Directory *)

\* bcrypt: the stored hash of a plaintext, and bcrypt.compare on a well-formed hash
Hash(plain) == <<"$2a$">> \o plain

bcryptCompare(plain, hash) == Hash(plain) = hash

AccountIds == {1, 2, 3}

InitAccounts ==
  [id \in AccountIds |->
     CASE id = 1 -> [id |-> 1, realm |-> Some(<<"t">>), username |-> Some(<<"a">>),
                     email |-> Some(<<"x">>), password |-> Some(Hash(<<"p">>)),
                     emailVerified |-> FALSE, verificationToken |-> Some(<<"v">>)]
       [] id = 2 -> [id |-> 2, realm |-> Some(<<"t">>), username |-> Some(<<"b">>),
                     email |-> Some(<<"y">>), password |-> Some(Hash(<<"p">>)),
                     emailVerified |-> TRUE, verificationToken |-> None]
       [] id = 3 -> [id |-> 3, realm |-> Some(<<"t">>), username |-> Some(<<"c">>),
                     email |-> Some(<<"z">>), password |-> None,
                     emailVerified |-> TRUE, verificationToken |-> None]]

\* the where filter of findOne: every property the query holds is matched exactly
Matches(account, query) ==
  /\ query.email # None => account.email = query.email
  /\ query.username # None => account.username = query.username
  /\ query.realm # None => account.realm = query.realm

\* findOne({where: query}): the first matching account, or null
findOne(dir, query) ==
  LET hits == {id \in DOMAIN dir : Matches(dir[id], query)}
  IN  IF hits = {} THEN None
      ELSE Some(dir[CHOOSE id \in hits : \A j \in hits : id <= j])

-----------------------------------------------------------------------------
(* The include argument of login *)

LowerChar(ch) ==
  CASE ch = "U" -> "u" [] ch = "S" -> "s" [] ch = "E" -> "e" [] ch = "R" -> "r"
    [] OTHER -> ch

toLowerCase(str) == [i \in 1..Len(str) |-> LowerChar(str[i])]

Str(v) == [kind |-> "string", v |-> v]

Arr(v) == [kind |-> "array", v |-> v]

\* a faulty variant of normalizeInclude: the names are taken as they are written
normalizeInclude_asWritten(include) ==
  IF include = None \/ (include[1].kind = "string" /\ include[1].v = <<>>)
  THEN Str(<<>>)
  ELSE include[1]

\* include = (include || ''), then lower-cased, element by element for an array
normalizeInclude(include) ==
  IF include = None \/ (include[1].kind = "string" /\ include[1].v = <<>>)
  THEN Str(<<>>)
  ELSE IF include[1].kind = "array"
  THEN Arr([i \in 1..Len(include[1].v) |-> toLowerCase(include[1].v[i])])
  ELSE Str(toLowerCase(include[1].v))

\* Array.isArray(include) ? include.indexOf('user') !== -1 : include === 'user'
includesUser(include) ==
  IF include.kind = "array"
  THEN \E i \in 1..Len(include.v) : include.v[i] = <<"u", "s", "e", "r">>
  ELSE include.v = <<"u", "s", "e", "r">>

-----------------------------------------------------------------------------
(* Calls in flight.  A call is one invocation of login, logout or confirm; *)
(* pc is the callback it is waiting for.  out is what it has passed to fn  *)
(* so far; lookups counts its Account Directory requests, tokens0 and      *)
(* accounts0 are the Session Store and the Account Directory as they were  *)
(* when the call was made, include0 and body0 are the include argument    *)
(* and the request body as they were given, and faults holds the           *)
(* errors its collaborators have answered with.  Spec makes its calls one  *)
(* after the other, in the slot c1.                                        *)

Calls == {"c1", "c2"}

NoCredentials ==
  [username |-> None, email |-> None, realm |-> None, password |-> None, ttl |-> None]

IdleCall ==
  [op |-> "none", pc |-> "idle", credentials |-> NoCredentials, include |-> Str(<<>>),
   query |-> EmptyQuery, user |-> None, ttl |-> 0, tokenId |-> 0,
   uid |-> 0, token |-> None,
   plain |-> None, body |-> None, body0 |-> None,
   out |-> <<>>, lookups |-> 0, include0 |-> None,
   tokens0 |-> {}, accounts0 |-> <<>>, faults |-> {}]

\* the call record with a collaborator's error, if it answered with one, noted
Noted(call, err) ==
  IF err = None THEN call ELSE [call EXCEPT !.faults = @ \cup {err[1]}]

\* fn(err) and fn(null, result): the call record after the callback ran
Fail(call, err) ==
  [call EXCEPT !.out = Append(@, [err |-> Some(err), result |-> None]), !.pc = "done"]

Succeed(call, result) ==
  [call EXCEPT !.out = Append(@, [err |-> None, result |-> result]), !.pc = "done"]

\* a faulty variant of realmIsRequired: a configured delimiter alone does not require a realm
realmIsRequired_flagOnly(st) == st.realmRequired

\* !!(self.settings.realmRequired || self.settings.realmDelimiter)
realmIsRequired(st) == st.realmRequired \/ TruthyStr(st.realmDelimiter)

\* a faulty variant of hasPassword: an account without a hash is compared too
hasPassword_plainOnly(user, plain) ==
  IF TruthyStr(plain) THEN "compare" ELSE "false"

\* hasPassword up to the call of bcrypt.compare: "compare" when it is called,
\* "false" when fn(null, false) is called at once
hasPassword(user, plain) ==
  IF TruthyStr(user.password) /\ TruthyStr(plain) THEN "compare" ELSE "false"

-----------------------------------------------------------------------------
(* login *)

\* a faulty variant of loginStart: the principal is not checked
loginStart_noPrincipalCheck(call, st, credentials, include) ==
  LET realmRequired == realmIsRequired(st)
      realmDelimiter == IF realmRequired THEN st.realmDelimiter ELSE None
      query == normalizeCredentials(credentials, realmRequired, realmDelimiter)
      started == [call EXCEPT !.op = "login", !.credentials = credentials,
                              !.include = normalizeInclude(include), !.query = query]
  IN  IF realmRequired /\ ~TruthyStr(query.realm) THEN Fail(started, err1)
      ELSE [started EXCEPT !.pc = "findOne", !.lookups = @ + 1]

\* a faulty variant of loginStart: the principal is checked before the realm
loginStart_principalFirst(call, st, credentials, include) ==
  LET realmRequired == realmIsRequired(st)
      realmDelimiter == IF realmRequired THEN st.realmDelimiter ELSE None
      query == normalizeCredentials(credentials, realmRequired, realmDelimiter)
      started == [call EXCEPT !.op = "login", !.credentials = credentials,
                              !.include = normalizeInclude(include), !.query = query]
  IN  IF ~TruthyStr(query.email) /\ ~TruthyStr(query.username)
      THEN Fail(started, err2)
      ELSE IF realmRequired /\ ~TruthyStr(query.realm) THEN Fail(started, err1)
      ELSE [started EXCEPT !.pc = "findOne", !.lookups = @ + 1]

\* login up to its call of findOne: the include and credentials are
\* normalised, then the realm and the principal are checked
loginStart(call, st, credentials, include) ==
  LET realmRequired == realmIsRequired(st)
      realmDelimiter == IF realmRequired THEN st.realmDelimiter ELSE None
      query == normalizeCredentials(credentials, realmRequired, realmDelimiter)
      started == [call EXCEPT !.op = "login", !.credentials = credentials,
                              !.include = normalizeInclude(include), !.query = query]
  IN  IF realmRequired /\ ~TruthyStr(query.realm) THEN Fail(started, err1)
      ELSE IF ~TruthyStr(query.email) /\ ~TruthyStr(query.username)
      THEN Fail(started, err2)
      ELSE [started EXCEPT !.pc = "findOne", !.lookups = @ + 1]

\* a faulty variant of onFindOne: an unknown principal gets an error of its own
onFindOne_unknownUser(call, err, user) ==
  IF err # None THEN Fail(call, defaultError)
  ELSE IF user # None
  THEN IF hasPassword(user[1], call.credentials.password) = "compare"
       THEN [call EXCEPT !.user = user, !.pc = "compare"]
       ELSE Fail([call EXCEPT !.user = user], defaultError)
  ELSE Fail(call, Err("login failed", 404, "USER_NOT_FOUND"))

\* the callback of findOne, up to the call of bcrypt.compare
onFindOne(call, err, user) ==
  IF err # None THEN Fail(call, defaultError)
  ELSE IF user # None
  THEN IF hasPassword(user[1], call.credentials.password) = "compare"
       THEN [call EXCEPT !.user = user, !.pc = "compare"]
       ELSE Fail([call EXCEPT !.user = user], defaultError)
  ELSE Fail(call, defaultError)

\* a faulty variant of onHasPassword: the email verification is not checked
onHasPassword_noVerification(call, st, err, isMatch) ==
  IF err # None THEN Fail(call, defaultError)
  ELSE IF isMatch
  THEN [call EXCEPT !.ttl = createAccessToken(call.credentials.ttl, st),
                    !.pc = "create"]
  ELSE Fail(call, defaultError)

\* a faulty variant of onHasPassword: an unverified account gets the generic error
onHasPassword_genericError(call, st, err, isMatch) ==
  IF err # None THEN Fail(call, defaultError)
  ELSE IF isMatch
  THEN IF st.emailVerificationRequired /\ ~call.user[1].emailVerified
       THEN Fail(call, defaultError)
       ELSE [call EXCEPT !.ttl = createAccessToken(call.credentials.ttl, st),
                         !.pc = "create"]
  ELSE Fail(call, defaultError)

\* a faulty variant of onHasPassword: the verification is checked before the
\* outcome of the comparison is looked at
onHasPassword_verificationFirst(call, st, err, isMatch) ==
  IF st.emailVerificationRequired /\ ~call.user[1].emailVerified
  THEN Fail(call, errNotVerified)
  ELSE IF err # None THEN Fail(call, defaultError)
  ELSE IF isMatch
  THEN [call EXCEPT !.ttl = createAccessToken(call.credentials.ttl, st),
                    !.pc = "create"]
  ELSE Fail(call, defaultError)

\* the callback of hasPassword, up to the call of accessTokens.create
onHasPassword(call, st, err, isMatch) ==
  IF err # None THEN Fail(call, defaultError)
  ELSE IF isMatch
  THEN IF st.emailVerificationRequired /\ ~call.user[1].emailVerified
       THEN Fail(call, errNotVerified)
       ELSE [call EXCEPT !.ttl = createAccessToken(call.credentials.ttl, st),
                         !.pc = "create"]
  ELSE Fail(call, defaultError)

\* a faulty variant of tokenHandler: fn(err) is not the end of it, fn(err, token)
\* follows
tokenHandler_noReturn(call, err, token) ==
  IF err # None
  THEN [Fail(call, err[1]) EXCEPT !.out = Append(@, [err |-> err, result |-> token])]
  ELSE Succeed(call,
               Some([token[1] EXCEPT !.data_user =
                       IF includesUser(call.include) THEN call.user ELSE @]))

\* tokenHandler: token.__data.user is set when the user was asked for; the
\* token's own user property, the relation accessor, is left as it is
tokenHandler(call, err, token) ==
  IF err # None THEN Fail(call, err[1])
  ELSE Succeed(call,
               Some([token[1] EXCEPT !.data_user =
                       IF includesUser(call.include) THEN call.user ELSE @]))

Principals ==
  {None, Some(<<"a">>), Some(<<"b">>), Some(<<"c">>), Some(<<"t", "/", "a">>),
   Some(<<"n">>)}

CredentialsInputs ==
  [username : Principals, email : {None, Some(<<"x">>)},
   realm : {None, Some(<<"t">>)},
   password : {None, Some(<<"p">>), Some(<<"q">>)},
   ttl : {None, Some(0), Some(10000000), Some(40000000)}]

IncludeInputs == {None, Some(Str(<<"U", "s", "e", "r">>))}

LoginCall(c, credentials, include) ==
  /\ calls[c].pc = "idle"
  /\ nextId <= MaxTokens
  /\ calls' = [calls EXCEPT ![c] =
                 loginStart([IdleCall EXCEPT !.tokens0 = tokens,
                                             !.accounts0 = accounts,
                                             !.include0 = include], settings,
                            credentials, include)]
  /\ UNCHANGED <<settings, accounts, tokens, nextId, norm>>

\* the Account Directory answers findOne: an error, or the account found (or none)
FindOneReply(c) ==
  /\ calls[c].pc = "findOne"
  /\ \E err \in {None, Some(findOneError)} :
       calls' = [calls EXCEPT ![c] =
                   onFindOne(Noted(@, err), err,
                             IF err = None THEN findOne(accounts, calls[c].query)
                             ELSE None)]
  /\ UNCHANGED <<settings, accounts, tokens, nextId, norm>>

\* bcrypt.compare answers: an error, or whether the plaintext matches the hash
CompareReply(c) ==
  /\ calls[c].pc = "compare"
  /\ \E err \in {None, Some(compareError)} :
       calls' = [calls EXCEPT ![c] =
                   onHasPassword(Noted(@, err), settings, err,
                                 err = None /\
                                 bcryptCompare(calls[c].credentials.password[1],
                                               calls[c].user[1].password[1]))]
  /\ UNCHANGED <<settings, accounts, tokens, nextId, norm>>

\* the Session Store answers accessTokens.create: an error and no token, or
\* the token it has stored; its user property is the accessor of the relation
\* "AccessToken belongsTo StormpathUser", its __data.user is not set
CreateReply(c) ==
  /\ calls[c].pc = "create"
  /\ \E err \in {None, Some(createError)} :
       LET token == [id |-> nextId, ttl |-> calls[c].ttl,
                     userId |-> calls[c].user[1].id, user |-> "relation",
                     data_user |-> None]
       IN  /\ tokens' = IF err = None THEN tokens \cup {token} ELSE tokens
           /\ nextId' = IF err = None THEN nextId + 1 ELSE nextId
           /\ calls' = [calls EXCEPT ![c] =
                          tokenHandler(Noted(@, err), err,
                                       IF err = None THEN Some(token) ELSE None)]
  /\ UNCHANGED <<settings, accounts, norm>>

-----------------------------------------------------------------------------
(* logout *)

\* accessTokens.modelTo.findById(tokenId): the stored token with that id, or null
findById(store, tokenId) ==
  IF \E t \in store : t.id = tokenId
  THEN Some(CHOOSE t \in store : t.id = tokenId)
  ELSE None

\* a faulty variant of onFindById: a token that is not found counts as logged out
onFindById_missingIsSuccess(call, err, accessToken) ==
  IF err # None THEN Fail(call, err[1])
  ELSE IF accessToken # None THEN [call EXCEPT !.pc = "destroy"]
  ELSE Succeed(call, None)

\* the callback of findById, up to the call of accessToken.destroy
onFindById(call, err, accessToken) ==
  IF err # None THEN Fail(call, err[1])
  ELSE IF accessToken # None THEN [call EXCEPT !.pc = "destroy"]
  ELSE Fail(call, errTokenNotFound)

\* accessToken.destroy(fn): fn is the callback of destroy itself
onDestroy(call, err) ==
  IF err # None THEN Fail(call, err[1]) ELSE Succeed(call, None)

TokenIdInputs == 0..MaxTokens

LogoutCall(c, tokenId) ==
  /\ calls[c].pc = "idle"
  /\ calls' = [calls EXCEPT ![c] =
                 [IdleCall EXCEPT !.op = "logout", !.tokenId = tokenId,
                                  !.pc = "findById", !.tokens0 = tokens,
                                  !.accounts0 = accounts]]
  /\ UNCHANGED <<settings, accounts, tokens, nextId, norm>>

FindByIdReply(c) ==
  /\ calls[c].pc = "findById"
  /\ \E err \in {None, Some(findByIdError)} :
       calls' = [calls EXCEPT ![c] =
                   onFindById(Noted(@, err), err,
                              IF err = None THEN findById(tokens, calls[c].tokenId)
                              ELSE None)]
  /\ UNCHANGED <<settings, accounts, tokens, nextId, norm>>

\* the Session Store answers destroy: an error and the token is kept, or the
\* token with that id is gone
DestroyReply(c) ==
  /\ calls[c].pc = "destroy"
  /\ \E err \in {None, Some(destroyError)} :
       /\ tokens' = IF err = None THEN {t \in tokens : t.id # calls[c].tokenId}
                    ELSE tokens
       /\ calls' = [calls EXCEPT ![c] = onDestroy(Noted(@, err), err)]
  /\ UNCHANGED <<settings, accounts, nextId, norm>>

-----------------------------------------------------------------------------
(* confirm *)

\* this.findById(uid): the account with that id, or null
findAccountById(dir, uid) == IF uid \in DOMAIN dir THEN Some(dir[uid]) ELSE None

\* a faulty variant of onFindAccount: the matched verificationToken is kept
onFindAccount_keepToken(call, err, user) ==
  IF err # None THEN Fail(call, err[1])
  ELSE IF user # None /\ user[1].verificationToken = call.token
  THEN [call EXCEPT !.user = Some([user[1] EXCEPT !.emailVerified = TRUE]),
                    !.pc = "save"]
  ELSE IF user # None THEN Fail(call, errInvalidToken(call.token))
  ELSE Fail(call, errUserNotFound(call.uid))

\* a faulty variant of onFindAccount: any account that is found is verified
onFindAccount_noTokenCheck(call, err, user) ==
  IF err # None THEN Fail(call, err[1])
  ELSE IF user # None
  THEN [call EXCEPT !.user = Some([user[1] EXCEPT !.verificationToken = None,
                                                  !.emailVerified = TRUE]),
                    !.pc = "save"]
  ELSE Fail(call, errUserNotFound(call.uid))

\* the callback of findById, up to the call of user.save: the fetched user
\* object is changed, the directory is not until save
onFindAccount(call, err, user) ==
  IF err # None THEN Fail(call, err[1])
  ELSE IF user # None /\ user[1].verificationToken = call.token
  THEN [call EXCEPT !.user = Some([user[1] EXCEPT !.verificationToken = None,
                                                  !.emailVerified = TRUE]),
                    !.pc = "save"]
  ELSE IF user # None THEN Fail(call, errInvalidToken(call.token))
  ELSE Fail(call, errUserNotFound(call.uid))

\* a faulty variant of save: the password hash is not stored
save_withoutPassword(dir, user) ==
  [dir EXCEPT ![user.id] = [user EXCEPT !.password = None]]

\* user.save(): the directory with the user object stored under its id
save(dir, user) == [dir EXCEPT ![user.id] = user]

\* a faulty variant of onSave: a save error is reported as the login failure is
onSave_collapsed(call, err) ==
  IF err # None THEN Fail(call, defaultError) ELSE Succeed(call, None)

\* the callback of save: fn(err), or fn() with no argument
onSave(call, err) ==
  IF err # None THEN Fail(call, err[1]) ELSE Succeed(call, None)

UidInputs == {1, 2, 9}

VerificationTokenInputs == {None, Some(<<"v">>), Some(<<"w">>)}

ConfirmCall(c, uid, token) ==
  /\ calls[c].pc = "idle"
  /\ calls' = [calls EXCEPT ![c] =
                 [IdleCall EXCEPT !.op = "confirm", !.uid = uid, !.token = token,
                                  !.pc = "findAccount", !.tokens0 = tokens,
                                  !.accounts0 = accounts, !.lookups = 1]]
  /\ UNCHANGED <<settings, accounts, tokens, nextId, norm>>

FindAccountReply(c) ==
  /\ calls[c].pc = "findAccount"
  /\ \E err \in {None, Some(findAccountError)} :
       calls' = [calls EXCEPT ![c] =
                   onFindAccount(Noted(@, err), err,
                                 IF err = None
                                 THEN findAccountById(accounts, calls[c].uid)
                                 ELSE None)]
  /\ UNCHANGED <<settings, accounts, tokens, nextId, norm>>

\* the Account Directory answers save: an error and nothing is stored, or the
\* user object is stored
SaveReply(c) ==
  /\ calls[c].pc = "save"
  /\ \E err \in {None, Some(saveError)} :
       /\ accounts' = IF err = None THEN save(accounts, calls[c].user[1])
                      ELSE accounts
       /\ calls' = [calls EXCEPT ![c] = onSave(Noted(@, err), err)]
  /\ UNCHANGED <<settings, tokens, nextId, norm>>

-----------------------------------------------------------------------------
(* validatePassword *)

\* a value that is a number, v its decimal text
Num(v) == [kind |-> "number", v |-> v]

\* new Error('Invalid password: ' + plain) with statusCode 422; no code is set
errInvalidPassword(plain) ==
  [message |-> <<"Invalid password: ", plain>>, statusCode |-> Some(422),
   code |-> None]

\* a faulty variant of validatePassword: the empty string is accepted
validatePassword_anyString(plain) ==
  IF plain # None /\ plain[1].kind = "string" THEN None
  ELSE Some(errInvalidPassword(plain))

\* typeof plain === 'string' && plain: None when true is returned, else the
\* error that is thrown
validatePassword(plain) ==
  IF plain # None /\ plain[1].kind = "string" /\ plain[1].v # <<>> THEN None
  ELSE Some(errInvalidPassword(plain))

PlainInputs == {None, Some(Str(<<>>)), Some(Str(<<"p">>)), Some(Num(<<"5">>))}

\* the call returns or throws at once; what it throws is noted as the outcome
ValidatePasswordCall(c, plain) ==
  /\ calls[c].pc = "idle"
  /\ LET call == [IdleCall EXCEPT !.op = "validatePassword", !.plain = plain,
                                  !.tokens0 = tokens, !.accounts0 = accounts]
         err == validatePassword(plain)
     IN calls' = [calls EXCEPT ![c] = IF err = None THEN Succeed(call, Some(TRUE))
                                      ELSE Fail(call, err[1])]
  /\ UNCHANGED <<settings, accounts, tokens, nextId, norm>>

-----------------------------------------------------------------------------
(* The hook that setup registers before the remote method create *)

\* a value that is a boolean, v its text
Bool(b) == [kind |-> "boolean", v |-> IF b THEN <<"true">> ELSE <<"false">>]

\* what `if (value)` takes for true: a property that is set, and is not
\* false, 0 or ''
Truthy(value) ==
  /\ value # None
  /\ CASE value[1].kind = "boolean" -> value[1].v = <<"true">>
       [] value[1].kind = "number" -> value[1].v # <<"0">>
       [] value[1].kind = "string" -> value[1].v # <<>>

\* a faulty variant of beforeRemoteCreate: only the boolean true is rewritten
beforeRemoteCreate_onlyTrue(call) ==
  Succeed([call EXCEPT !.body =
             IF call.body # None /\ call.body[1].emailVerified = Some(Bool(TRUE))
             THEN Some([call.body[1] EXCEPT !.emailVerified = Some(Bool(FALSE))])
             ELSE @],
          None)

\* function(ctx, user, next): body.emailVerified = false when the body is
\* there and its emailVerified is truthy; then next() with no argument
beforeRemoteCreate(call) ==
  Succeed([call EXCEPT !.body =
             IF call.body # None /\ Truthy(call.body[1].emailVerified)
             THEN Some([call.body[1] EXCEPT !.emailVerified = Some(Bool(FALSE))])
             ELSE @],
          None)

EmailVerifiedInputs ==
  {None, Some(Bool(TRUE)), Some(Bool(FALSE)), Some(Str(<<"y">>)), Some(Str(<<>>)),
   Some(Num(<<"1">>)), Some(Num(<<"0">>))}

\* ctx.req.body: no body, or an object with the properties of an account
BodyInputs ==
  {None} \cup
  {Some(b) : b \in [emailVerified : EmailVerifiedInputs,
                    email : {None, Some(<<"x">>)},
                    password : {None, Some(<<"p">>)}]}

\* a remote create request has come in; the hook has not run yet
CreateRequest(c, body) ==
  /\ calls[c].pc = "idle"
  /\ calls' = [calls EXCEPT ![c] =
                 [IdleCall EXCEPT !.op = "create", !.pc = "beforeRemote",
                                  !.body = body, !.body0 = body,
                                  !.tokens0 = tokens, !.accounts0 = accounts]]
  /\ UNCHANGED <<settings, accounts, tokens, nextId, norm>>

\* the hook runs
BeforeRemoteCreate(c) ==
  /\ calls[c].pc = "beforeRemote"
  /\ calls' = [calls EXCEPT ![c] = beforeRemoteCreate(@)]
  /\ UNCHANGED <<settings, accounts, tokens, nextId, norm>>

-----------------------------------------------------------------------------
(* Return *)

\* the caller has its answer; the slot is free for the next call
Return(c) ==
  /\ calls[c].pc = "done"
  /\ calls' = [calls EXCEPT ![c] = IdleCall]
  /\ UNCHANGED <<settings, accounts, tokens, nextId, norm>>

-----------------------------------------------------------------------------
(* The specification: calls are made one after the other *)

NormIdle ==
  [credentials |-> NoCredentials, realmRequired |-> FALSE, realmDelimiter |-> None,
   query |-> None]

Init ==
  /\ settings \in {setup(raw) : raw \in RawSettings}
  /\ accounts = InitAccounts
  /\ tokens = {}
  /\ nextId = 1
  /\ calls = [c \in Calls |-> IdleCall]
  /\ norm = NormIdle

Next ==
  \/ \E credentials \in CredentialsInputs, include \in IncludeInputs :
       LoginCall("c1", credentials, include)
  \/ FindOneReply("c1")
  \/ CompareReply("c1")
  \/ CreateReply("c1")
  \/ \E tokenId \in TokenIdInputs : LogoutCall("c1", tokenId)
  \/ FindByIdReply("c1")
  \/ DestroyReply("c1")
  \/ \E uid \in UidInputs, token \in VerificationTokenInputs :
       ConfirmCall("c1", uid, token)
  \/ FindAccountReply("c1")
  \/ SaveReply("c1")
  \/ \E plain \in PlainInputs : ValidatePasswordCall("c1", plain)
  \/ Return("c1")

Spec == Init /\ [][Next]_vars

-----------------------------------------------------------------------------
(* normalizeCredentials on its own: the inputs are drawn, then it is applied *)

Chars == {"a", "/"}

Strings == UNION {[1..n -> Chars] : n \in 0..MaxLen}

NormInputs ==
  [credentials : [username : {None} \cup {Some(str) : str \in Strings},
                  email : {None} \cup {Some(str) : str \in Strings},
                  realm : {None, Some(<<>>), Some(<<"r">>)},
                  password : {None}, ttl : {None}],
   realmRequired : BOOLEAN,
   realmDelimiter : {None, Some(<<>>), Some(<<"/">>), Some(<<"/", "/">>),
                     Some(<<"a", "/">>)},
   query : {None}]

InitNorm ==
  /\ settings = setup(CHOOSE raw \in RawSettings : TRUE)
  /\ accounts = InitAccounts
  /\ tokens = {}
  /\ nextId = 1
  /\ calls = [c \in Calls |-> IdleCall]
  /\ norm \in NormInputs

Normalize ==
  /\ norm.query = None
  /\ norm' = [norm EXCEPT !.query =
                Some(normalizeCredentials(norm.credentials, norm.realmRequired,
                                          norm.realmDelimiter))]
  /\ UNCHANGED <<settings, accounts, tokens, nextId, calls>>

NextNorm == Normalize

SpecNorm == InitNorm /\ [][NextNorm]_vars

-----------------------------------------------------------------------------
(* The specification of login alone, with the shapes of its include        *)
(* argument and of the password: no realm is required                      *)

IncludeCases ==
  {None, Some(Str(<<>>)), Some(Str(<<"u", "s", "e", "r">>)),
   Some(Str(<<"U", "s", "E", "r">>)), Some(Str(<<"u", "s", "e", "r", "s">>)),
   Some(Arr(<< <<"R", "o", "l", "e", "s">>, <<"U", "S", "E", "R">> >>)),
   Some(Arr(<< <<"R", "o", "l", "e", "s">> >>)), Some(Arr(<<>>))}

LoginCredentials ==
  [username : {Some(<<"a">>), Some(<<"b">>), Some(<<"c">>)}, email : {None},
   realm : {None}, password : {None, Some(<<>>), Some(<<"p">>), Some(<<"q">>)},
   ttl : {None}]

InitLogin ==
  /\ settings \in {setup(raw) : raw \in {r \in RawSettings :
                      ~r.realmRequired /\ r.realmDelimiter = None /\ r.ttl = None}}
  /\ accounts = InitAccounts
  /\ tokens = {}
  /\ nextId = 1
  /\ calls = [c \in Calls |-> IdleCall]
  /\ norm = NormIdle

NextLogin ==
  \/ \E credentials \in LoginCredentials, include \in IncludeCases :
       LoginCall("c1", credentials, include)
  \/ FindOneReply("c1")
  \/ CompareReply("c1")
  \/ CreateReply("c1")
  \/ Return("c1")

SpecLogin == InitLogin /\ [][NextLogin]_vars

-----------------------------------------------------------------------------
(* The specification of the hook before create: requests come in one      *)
(* after the other, under every configuration                              *)

InitCreate ==
  /\ settings \in {setup(raw) : raw \in RawSettings}
  /\ accounts = InitAccounts
  /\ tokens = {}
  /\ nextId = 1
  /\ calls = [c \in Calls |-> IdleCall]
  /\ norm = NormIdle

NextCreate ==
  \/ \E body \in BodyInputs : CreateRequest("c1", body)
  \/ BeforeRemoteCreate("c1")
  \/ Return("c1")

SpecCreate == InitCreate /\ [][NextCreate]_vars

-----------------------------------------------------------------------------
(* The specification of confirm alone.  Account c has just been created:   *)
(* it is not verified and no verificationToken has been issued for it      *)

FreshAccounts == [InitAccounts EXCEPT ![3].emailVerified = FALSE]

ConfirmUidInputs == {1, 2, 3, 9}

InitConfirm ==
  /\ settings \in {setup(raw) : raw \in RawSettings}
  /\ accounts = FreshAccounts
  /\ tokens = {}
  /\ nextId = 1
  /\ calls = [c \in Calls |-> IdleCall]
  /\ norm = NormIdle

NextConfirm ==
  \/ \E uid \in ConfirmUidInputs, token \in VerificationTokenInputs :
       ConfirmCall("c1", uid, token)
  \/ FindAccountReply("c1")
  \/ SaveReply("c1")
  \/ Return("c1")

SpecConfirm == InitConfirm /\ [][NextConfirm]_vars

-----------------------------------------------------------------------------
(* The specification of concurrent logouts: account b is logged in with    *)
(* the token 1, and logouts are made in both slots; a call yields at its   *)
(* findById and at its destroy, where the steps of the other call may run  *)

TokenOfB(st) ==
  [id |-> 1, ttl |-> createAccessToken(None, st), userId |-> 2,
   user |-> "relation", data_user |-> None]

InitLogouts ==
  /\ settings \in {setup(raw) : raw \in RawSettings}
  /\ accounts = InitAccounts
  /\ tokens = {TokenOfB(settings)}
  /\ nextId = 2
  /\ calls = [c \in Calls |-> IdleCall]
  /\ norm = NormIdle

NextLogouts ==
  \E c \in Calls :
    \/ \E tokenId \in TokenIdInputs : LogoutCall(c, tokenId)
    \/ FindByIdReply(c)
    \/ DestroyReply(c)
    \/ Return(c)

SpecLogouts == InitLogouts /\ [][NextLogouts]_vars

-----------------------------------------------------------------------------
(* Properties of login *)

LoginDone(c) == calls[c].op = "login" /\ calls[c].pc = "done"

\* the error the call has passed to fn, or None
ErrorOf(c) == IF calls[c].out = <<>> THEN None ELSE calls[c].out[1].err

HasCode(err, code) == err # None /\ err[1].code = Some(code)

\* the account of the directory that the call's normalized query matches, or None
AccountOf(c) == findOne(accounts, calls[c].query)

\* the plaintext is given and is the one the account's stored hash was made from
PasswordIsCorrect(account, plain) ==
  /\ plain # None
  /\ account.password # None
  /\ account.password[1] = Hash(plain[1])

RealmIsNeeded == settings.realmRequired \/ settings.realmDelimiter # None

LoginErrorCodes ==
  {"REALM_REQUIRED", "USERNAME_EMAIL_REQUIRED", "LOGIN_FAILED",
   "LOGIN_FAILED_EMAIL_NOT_VERIFIED"}

\* C1: a login leaves a new session token in the Session Store only if the
\* directory holds an account for the normalized query, the password is that
\* account's, and email verification is not required or the account is
\* verified; a login that ended in RealmRequired, UsernameOrEmailRequired,
\* LoginFailed or LoginFailedEmailNotVerified left the set of tokens as it was.
C1_TokenOnlyForVerifiedMatch ==
  \A c \in Calls :
    calls[c].op = "login" =>
      /\ tokens # calls[c].tokens0 =>
           /\ AccountOf(c) # None
           /\ PasswordIsCorrect(AccountOf(c)[1], calls[c].credentials.password)
           /\ ~settings.emailVerificationRequired \/ AccountOf(c)[1].emailVerified
      /\ (calls[c].pc = "done" /\ \E code \in LoginErrorCodes : HasCode(ErrorOf(c), code))
           => tokens = calls[c].tokens0

\* a login has ended with a token, with email verification required
C1_Witness ==
  \E c \in Calls :
    /\ LoginDone(c)
    /\ settings.emailVerificationRequired
    /\ ErrorOf(c) = None
    /\ tokens # calls[c].tokens0

TheLoginFailedError ==
  [message |-> <<"login failed">>, statusCode |-> Some(401), code |-> Some("LOGIN_FAILED")]

\* C2: a login whose query matches no account and a login whose query matches
\* an account whose password is another one both pass fn the same error: code
\* LOGIN_FAILED, status 401, message 'login failed'.
C2_UnknownAndWrongPasswordAlike ==
  \A c \in Calls :
    (LoginDone(c) /\ calls[c].lookups > 0) =>
      ((AccountOf(c) = None
        \/ ~PasswordIsCorrect(AccountOf(c)[1], calls[c].credentials.password))
         => calls[c].out = <<[err |-> Some(TheLoginFailedError), result |-> None]>>)

\* a login for an account that exists, with a wrong password, has ended without
\* any collaborator error
C2_Witness ==
  \E c \in Calls :
    /\ LoginDone(c)
    /\ calls[c].faults = {}
    /\ AccountOf(c) # None
    /\ calls[c].credentials.password = Some(<<"q">>)
    /\ AccountOf(c)[1].password # None
    /\ ErrorOf(c) = Some(TheLoginFailedError)

CollaboratorErrors ==
  {findOneError, compareError, createError, findByIdError, destroyError,
   findAccountError, saveError}

\* C3: a login never passes fn an error of the account lookup, of the password
\* comparison or of the token creation as it is: after such an error fn gets
\* the LoginFailed error.
C3_NoCollaboratorErrorVerbatim ==
  \A c \in Calls :
    (LoginDone(c) /\ calls[c].faults # {}) =>
      /\ ErrorOf(c) = Some(TheLoginFailedError)
      /\ ErrorOf(c)[1] \notin CollaboratorErrors

TheNotVerifiedError ==
  [message |-> <<"login failed as the email has not been verified">>,
   statusCode |-> Some(401), code |-> Some("LOGIN_FAILED_EMAIL_NOT_VERIFIED")]

\* the login's credentials are an account's, email verification is required
\* and the account is not verified; no collaborator answered with an error
UnverifiedCorrectLogin(c) ==
  /\ LoginDone(c)
  /\ calls[c].faults = {}
  /\ calls[c].lookups > 0
  /\ AccountOf(c) # None
  /\ PasswordIsCorrect(AccountOf(c)[1], calls[c].credentials.password)
  /\ settings.emailVerificationRequired
  /\ ~AccountOf(c)[1].emailVerified

\* C4: a login with an account's credentials and its password, when email
\* verification is required and the account is not verified, fails with
\* LOGIN_FAILED_EMAIL_NOT_VERIFIED (401), not LOGIN_FAILED, and creates no
\* token.  (The lookup and the comparison answering without an error.)
C4_UnverifiedGetsSpecificError ==
  \A c \in Calls :
    UnverifiedCorrectLogin(c) =>
      /\ calls[c].out = <<[err |-> Some(TheNotVerifiedError), result |-> None]>>
      /\ ~HasCode(ErrorOf(c), "LOGIN_FAILED")
      /\ tokens = calls[c].tokens0

C4_Witness == \E c \in Calls : UnverifiedCorrectLogin(c)

TheRealmRequiredError ==
  [message |-> <<"realm is required">>, statusCode |-> Some(400),
   code |-> Some("REALM_REQUIRED")]

ThePrincipalRequiredError ==
  [message |-> <<"username or email is required">>, statusCode |-> Some(400),
   code |-> Some("USERNAME_EMAIL_REQUIRED")]

NoPrincipal(credentials) ==
  ~TruthyStr(credentials.email) /\ ~TruthyStr(credentials.username)

\* C5 as claimed: with neither email nor username set, under every
\* configuration, login fails with USERNAME_EMAIL_REQUIRED before any
\* directory access.
C5_AlwaysPrincipalRequired ==
  \A c \in Calls :
    (LoginDone(c) /\ NoPrincipal(calls[c].credentials)) =>
      /\ calls[c].out = <<[err |-> Some(ThePrincipalRequiredError), result |-> None]>>
      /\ calls[c].lookups = 0

\* C5, amended: with neither email nor username set, login fails before any
\* directory access: with REALM_REQUIRED when a realm is required and the
\* credentials hold no realm, with USERNAME_EMAIL_REQUIRED otherwise.
C5_PrincipalRequiredAfterRealm ==
  \A c \in Calls :
    (LoginDone(c) /\ NoPrincipal(calls[c].credentials)) =>
      /\ calls[c].lookups = 0
      /\ calls[c].out =
           <<[err |-> Some(IF RealmIsNeeded /\ ~TruthyStr(calls[c].credentials.realm)
                           THEN TheRealmRequiredError
                           ELSE ThePrincipalRequiredError),
              result |-> None]>>

\* a login with a realm and no principal has ended, a realm being required
C5_Witness ==
  \E c \in Calls :
    /\ LoginDone(c)
    /\ NoPrincipal(calls[c].credentials)
    /\ RealmIsNeeded
    /\ calls[c].credentials.password # None
    /\ ErrorOf(c) = Some(ThePrincipalRequiredError)

\* the realm that normalization is to yield: the part of the principal before
\* the first delimiter if that part is not empty, or else the realm given
HasRealm(credentials) ==
  \/ TruthyStr(credentials.realm)
  \/ /\ settings.realmDelimiter # None
     /\ \E field \in {IF TruthyStr(credentials.email) THEN credentials.email
                      ELSE credentials.username} :
          /\ field # None
          /\ \E i \in 2..Len(field[1]) :
               SubSeq(field[1], i, i + Len(settings.realmDelimiter[1]) - 1)
                 = settings.realmDelimiter[1]

\* C6: when realmRequired is set or a realmDelimiter is configured, and
\* normalization yields no realm, login fails with REALM_REQUIRED (400),
\* whatever the password and whether or not the principal exists, and asks
\* the Account Directory nothing.
C6_RealmRequiredBeforeLookup ==
  \A c \in Calls :
    (LoginDone(c) /\ RealmIsNeeded /\ ~HasRealm(calls[c].credentials)) =>
      /\ calls[c].out = <<[err |-> Some(TheRealmRequiredError), result |-> None]>>
      /\ calls[c].lookups = 0

\* a login for an existing principal with its password and no realm has ended,
\* only the delimiter being configured
C6_Witness ==
  \E c \in Calls :
    /\ LoginDone(c)
    /\ ~settings.realmRequired
    /\ settings.realmDelimiter # None
    /\ calls[c].credentials.username = Some(<<"b">>)
    /\ calls[c].credentials.email = None
    /\ calls[c].credentials.password = Some(<<"p">>)
    /\ calls[c].credentials.realm = None
    /\ calls[c].lookups = 0

-----------------------------------------------------------------------------
(* Properties of createAccessToken and logout *)

\* the token a login has passed to fn, without the data attached to it
TokenOf(c) == [calls[c].out[1].result[1] EXCEPT !.data_user = None]

LoginSucceeded(c) ==
  LoginDone(c) /\ calls[c].out # <<>> /\ calls[c].out[1].result # None

\* what holds of every created token whichever way "requested ttl if given"
\* is read: no ttl above maxTTL; with maxTTL 31,556,926 a requested
\* 10,000,000 is kept and a requested 40,000,000 becomes 31,556,926
TtlClamped(c) ==
  /\ \A t \in tokens : t.ttl <= settings.maxTTL
  /\ LoginSucceeded(c) =>
       /\ TokenOf(c) \in tokens
       /\ (settings.maxTTL = 31556926 /\ calls[c].credentials.ttl = Some(10000000))
            => TokenOf(c).ttl = 10000000
       /\ (settings.maxTTL = 31556926 /\ calls[c].credentials.ttl = Some(40000000))
            => TokenOf(c).ttl = 31556926

\* C7 as claimed: every created token has ttl = min(the requested ttl if one
\* is given, otherwise the configured default ttl; the configured maxTTL).
C7_TtlIsMinOfGivenAndMax ==
  \A c \in Calls :
    /\ TtlClamped(c)
    /\ LoginSucceeded(c) =>
         TokenOf(c).ttl = Min(IF calls[c].credentials.ttl # None
                              THEN calls[c].credentials.ttl[1]
                              ELSE settings.ttl,
                              settings.maxTTL)

\* C7, amended: every created token has ttl = min(the requested ttl if one is
\* given and is not 0, otherwise the configured default ttl; the configured
\* maxTTL); no created token has a ttl above maxTTL; with maxTTL 31,556,926 a
\* requested 10,000,000 is kept and a requested 40,000,000 becomes 31,556,926.
C7_TtlIsMinOfNonZeroAndMax ==
  \A c \in Calls :
    /\ TtlClamped(c)
    /\ LoginSucceeded(c) =>
         TokenOf(c).ttl = Min(IF calls[c].credentials.ttl \notin {None, Some(0)}
                              THEN calls[c].credentials.ttl[1]
                              ELSE settings.ttl,
                              settings.maxTTL)

\* a login that asked for 40,000,000 has a token of 31,556,926
C7_Witness ==
  \E c \in Calls :
    /\ LoginSucceeded(c)
    /\ calls[c].credentials.ttl = Some(40000000)
    /\ TokenOf(c).ttl = 31556926

LogoutDone(c) == calls[c].op = "logout" /\ calls[c].pc = "done"

Ids(store) == {t.id : t \in store}

TheTokenNotFoundMessage == <<"could not find accessToken">>

\* C10: a logout with an id that is not in the Session Store fails with the
\* token-not-found error; a logout with an id that is in it destroys that
\* token and calls fn with no error and no payload; ids are never handed out
\* again, so that a later logout with the same id meets the first case.  (The
\* store answering the logout without an error of its own.)
C10_LogoutDestroysOnce ==
  /\ \A t \in tokens : t.id < nextId
  /\ \A c \in Calls :
       (LogoutDone(c) /\ calls[c].faults = {}) =>
         IF calls[c].tokenId \in Ids(calls[c].tokens0)
         THEN /\ calls[c].out = <<[err |-> None, result |-> None]>>
              /\ tokens = {t \in calls[c].tokens0 : t.id # calls[c].tokenId}
         ELSE /\ Len(calls[c].out) = 1
              /\ ErrorOf(c) # None
              /\ ErrorOf(c)[1].message = TheTokenNotFoundMessage
              /\ tokens = calls[c].tokens0

\* a logout with the id of a token that was handed out and has since been
\* destroyed has ended
C10_Witness ==
  \E c \in Calls :
    /\ LogoutDone(c)
    /\ calls[c].faults = {}
    /\ calls[c].tokenId = 1
    /\ nextId > 1
    /\ tokens = {}
    /\ ErrorOf(c) # None

-----------------------------------------------------------------------------
(* Properties of normalizeCredentials *)

NormDone == norm.query # None

\* the field normalizeCredentials reads the principal from: email first
PrincipalField ==
  IF TruthyStr(norm.credentials.email) THEN "email"
  ELSE IF TruthyStr(norm.credentials.username) THEN "username"
  ELSE "none"

Principal == norm.credentials[PrincipalField][1]

\* the places (from 1) where the configured delimiter occurs in the principal
Occurrences ==
  IF ~TruthyStr(norm.realmDelimiter) THEN {}
  ELSE LET d == norm.realmDelimiter[1]
       IN  {i \in 1..(Len(Principal) - Len(d) + 1) :
              SubSeq(Principal, i, i + Len(d) - 1) = d}

FirstOccurrence == CHOOSE i \in Occurrences : \A j \in Occurrences : i <= j

BeforeDelimiter == SubSeq(Principal, 1, FirstOccurrence - 1)

AfterDelimiter ==
  SubSeq(Principal, FirstOccurrence + Len(norm.realmDelimiter[1]), Len(Principal))

\* the explicit realm of the credentials, if one (not empty) is given
GivenRealm ==
  IF TruthyStr(norm.credentials.realm) THEN norm.credentials.realm ELSE None

\* C8 as claimed: with realmRequired, when the delimiter is configured and
\* occurs in the principal, the part before its first occurrence becomes
\* query.realm, overriding credentials.realm, and the part after it is stored
\* under the same field; otherwise the whole string is the principal and
\* query.realm is the explicit realm if given, otherwise absent.  (An empty
\* realm is read as no realm, which is how login reads it.)
C8_PrefixBecomesRealm ==
  (NormDone /\ norm.realmRequired /\ PrincipalField # "none") =>
    IF Occurrences # {}
    THEN /\ norm.query[1].realm =
              (IF BeforeDelimiter # <<>> THEN Some(BeforeDelimiter) ELSE None)
         /\ norm.query[1][PrincipalField] = Some(AfterDelimiter)
    ELSE /\ norm.query[1].realm = GivenRealm
         /\ norm.query[1][PrincipalField] = Some(Principal)

\* C8, amended: as claimed, except that the part before the first occurrence
\* becomes query.realm only if it is not empty; when the principal starts with
\* the delimiter, query.realm is the explicit realm if given, otherwise absent.
C8_NonEmptyPrefixBecomesRealm ==
  (NormDone /\ norm.realmRequired /\ PrincipalField # "none") =>
    IF Occurrences # {}
    THEN /\ norm.query[1].realm = IF BeforeDelimiter # <<>> THEN Some(BeforeDelimiter)
                                  ELSE GivenRealm
         /\ norm.query[1][PrincipalField] = Some(AfterDelimiter)
    ELSE /\ norm.query[1].realm = GivenRealm
         /\ norm.query[1][PrincipalField] = Some(Principal)

\* delimiter "/", username "a/a" and an explicit realm "r" have given
\* {realm: "a", username: "a"}
C8_Witness ==
  /\ NormDone
  /\ norm.realmRequired
  /\ norm.realmDelimiter = Some(<<"/">>)
  /\ norm.credentials.email = None
  /\ norm.credentials.username = Some(<<"a", "/", "a">>)
  /\ norm.credentials.realm = Some(<<"r">>)
  /\ norm.query[1] = [email |-> None, username |-> Some(<<"a">>), realm |-> Some(<<"a">>)]

\* C9: the query has at most one of email and username: email when a
\* non-empty email is supplied, otherwise username (when that is not empty);
\* and with realmRequired false the value is copied as it is and query.realm
\* is not set, whatever credentials.realm and the delimiter are.
C9_OnePrincipalAndNoRealmUnlessRequired ==
  NormDone =>
    /\ ~(norm.query[1].email # None /\ norm.query[1].username # None)
    /\ norm.query[1].email # None <=> PrincipalField = "email"
    /\ norm.query[1].username # None <=> PrincipalField = "username"
    /\ ~norm.realmRequired =>
         /\ norm.query[1].realm = None
         /\ PrincipalField = "email" => norm.query[1].email = norm.credentials.email
         /\ PrincipalField = "username" =>
              norm.query[1].username = norm.credentials.username

\* without realmRequired, an email holding the delimiter, a username and an
\* explicit realm have been normalized
C9_Witness ==
  /\ NormDone
  /\ ~norm.realmRequired
  /\ norm.realmDelimiter = Some(<<"/">>)
  /\ norm.credentials.email = Some(<<"a", "/", "a">>)
  /\ norm.credentials.username = Some(<<"a">>)
  /\ norm.credentials.realm = Some(<<"r">>)
  /\ norm.query[1] = [email |-> Some(<<"a", "/", "a">>), username |-> None, realm |-> None]

-----------------------------------------------------------------------------
(* Properties of confirm *)

ConfirmDone(c) == calls[c].op = "confirm" /\ calls[c].pc = "done"

\* the account the confirm addresses, as the directory held it when the call
\* was made, or None
AccountAtCall(c) == findAccountById(calls[c].accounts0, calls[c].uid)

TheSuccess == <<[err |-> None, result |-> None]>>

TheInvalidTokenError(token) ==
  [message |-> <<"Invalid token: ", token>>, statusCode |-> Some(400),
   code |-> Some("INVALID_TOKEN")]

\* C11: a confirm for an account that exists, with the token that is the
\* account's verificationToken, succeeds and leaves the account in the
\* directory with emailVerified true and no verificationToken; a confirm with a
\* token for an account whose verificationToken has been cleared fails with
\* InvalidToken.  Both when the directory answers without error.
C11_ConfirmVerifiesOnce ==
  \A c \in Calls :
    (ConfirmDone(c) /\ calls[c].faults = {} /\ AccountAtCall(c) # None
       /\ calls[c].token # None) =>
      /\ AccountAtCall(c)[1].verificationToken = calls[c].token =>
           /\ calls[c].out = TheSuccess
           /\ accounts[calls[c].uid] =
                [AccountAtCall(c)[1] EXCEPT !.emailVerified = TRUE,
                                            !.verificationToken = None]
      /\ AccountAtCall(c)[1].verificationToken = None =>
           calls[c].out = <<[err |-> Some(TheInvalidTokenError(calls[c].token)),
                             result |-> None]>>

\* account 1 has been confirmed with its token "v", and a second confirm for
\* it with "v" has ended with InvalidToken
C11_Witness ==
  \E c \in Calls :
    /\ ConfirmDone(c)
    /\ calls[c].faults = {}
    /\ calls[c].uid = 1
    /\ calls[c].token = Some(<<"v">>)
    /\ InitAccounts[1].verificationToken = Some(<<"v">>)
    /\ accounts[1].emailVerified
    /\ accounts[1].verificationToken = None
    /\ calls[c].accounts0 = accounts
    /\ HasCode(ErrorOf(c), "INVALID_TOKEN")

TheUserNotFoundError(uid) ==
  [message |-> <<"StormpathUser not found: ", uid>>, statusCode |-> Some(404),
   code |-> Some("USER_NOT_FOUND")]

\* the confirm addresses no account, or an account whose verificationToken is
\* not the token of the call
ConfirmMismatch(c) ==
  /\ calls[c].op = "confirm"
  /\ AccountAtCall(c) # None =>
       AccountAtCall(c)[1].verificationToken # calls[c].token

\* C12: a confirm for an account id that does not exist ends with UserNotFound,
\* status 404, and a confirm for an account whose verificationToken is not the
\* supplied token ends with InvalidToken, status 400, when findById answers
\* without error; in both cases the directory is as it was when the call was
\* made and the call never waits for a save.
C12_ConfirmMismatchFailsWithoutSave ==
  \A c \in Calls :
    ConfirmMismatch(c) =>
      /\ calls[c].pc # "save"
      /\ accounts = calls[c].accounts0
      /\ (calls[c].pc = "done" /\ calls[c].faults = {}) =>
           calls[c].out =
             <<[err |-> Some(IF AccountAtCall(c) = None
                             THEN TheUserNotFoundError(calls[c].uid)
                             ELSE TheInvalidTokenError(calls[c].token)),
                result |-> None]>>

\* a confirm for account 1, whose verificationToken "v" is pending, with the
\* token "w" has ended with InvalidToken
C12_Witness ==
  \E c \in Calls :
    /\ ConfirmDone(c)
    /\ calls[c].uid = 1
    /\ calls[c].token = Some(<<"w">>)
    /\ accounts[1].verificationToken = Some(<<"v">>)
    /\ ~accounts[1].emailVerified
    /\ ErrorOf(c) = Some(TheInvalidTokenError(Some(<<"w">>)))

-----------------------------------------------------------------------------
(* Properties of the errors *)

HttpStatuses == {Some(400), Some(401), Some(404), Some(422)}

\* C13: every error a call ends with that is not an error of a collaborator,
\* so is made by the Authenticator itself, carries a code and a status that is
\* 400, 401, 404 or 422; so do the error of a logout for an unknown token id
\* and the error validatePassword throws.
C13_OwnErrorsCarryCodeAndStatus ==
  \A c \in Calls :
    (calls[c].pc = "done" /\ ErrorOf(c) # None
       /\ ErrorOf(c)[1] \notin CollaboratorErrors) =>
      /\ ErrorOf(c)[1].code # None
      /\ ErrorOf(c)[1].statusCode \in HttpStatuses

-----------------------------------------------------------------------------
(* Properties of the whole login *)

\* C14: a login that has ended has called fn exactly once, with an error or
\* with a token and not both; a login that has not ended has not called fn and
\* waits for the one answer of one collaborator; a login asks the Account
\* Directory at most once and leaves at most one token in the Session Store
\* that was not there when the call was made.
C14_LoginAnswersOnce ==
  \A c \in Calls :
    calls[c].op = "login" =>
      /\ Len(calls[c].out) = (IF calls[c].pc = "done" THEN 1 ELSE 0)
      /\ calls[c].pc \in {"findOne", "compare", "create", "done"}
      /\ calls[c].pc = "done" =>
           (calls[c].out[1].err = None) # (calls[c].out[1].result = None)
      /\ calls[c].lookups <= 1
      /\ Cardinality(tokens \ calls[c].tokens0) <= 1
      /\ calls[c].tokens0 \subseteq tokens

\* a login got as far as the creation of the token, the Session Store answered
\* with an error, and the login has ended with one outcome and no token
C14_Witness ==
  \E c \in Calls :
    /\ LoginDone(c)
    /\ calls[c].faults = {createError}
    /\ calls[c].lookups = 1
    /\ Len(calls[c].out) = 1
    /\ tokens = calls[c].tokens0

\* the first of the checks of login, taken in their order, that the call does
\* not pass, or "token" when it passes them all
FirstFailedCheck(c) ==
  IF RealmIsNeeded /\ ~HasRealm(calls[c].credentials) THEN "realm"
  ELSE IF NoPrincipal(calls[c].query) THEN "principal"
  ELSE IF AccountOf(c) = None THEN "lookup"
  ELSE IF ~PasswordIsCorrect(AccountOf(c)[1], calls[c].credentials.password)
  THEN "password"
  ELSE IF settings.emailVerificationRequired /\ ~AccountOf(c)[1].emailVerified
  THEN "verification"
  ELSE "token"

\* the code of the error a login ends with at each check
CodeAt(check) ==
  CASE check = "realm" -> Some("REALM_REQUIRED")
    [] check = "principal" -> Some("USERNAME_EMAIL_REQUIRED")
    [] check \in {"lookup", "password"} -> Some("LOGIN_FAILED")
    [] check = "verification" -> Some("LOGIN_FAILED_EMAIL_NOT_VERIFIED")

\* C16: the outcome of a login, its collaborators answering without error, is
\* that of the first check it does not pass in the order realm, principal,
\* directory lookup, password, email verification, and a token when it passes
\* all; the directory is asked only when the realm and the principal checks
\* are passed.  So with a realm required and neither realm nor username nor
\* email given the error is REALM_REQUIRED, not USERNAME_EMAIL_REQUIRED.
C16_ChecksInFixedOrder ==
  \A c \in Calls :
    (LoginDone(c) /\ calls[c].faults = {}) =>
      /\ IF FirstFailedCheck(c) = "token"
         THEN ErrorOf(c) = None /\ calls[c].out[1].result # None
         ELSE /\ ErrorOf(c) # None
              /\ ErrorOf(c)[1].code = CodeAt(FirstFailedCheck(c))
              /\ tokens = calls[c].tokens0
      /\ calls[c].lookups =
           (IF FirstFailedCheck(c) \in {"realm", "principal"} THEN 0 ELSE 1)

\* a login with no realm, no username and no email has ended with
\* REALM_REQUIRED, a realm being required
C16_Witness ==
  \E c \in Calls :
    /\ LoginDone(c)
    /\ settings.realmRequired
    /\ calls[c].credentials.realm = None
    /\ calls[c].credentials.username = None
    /\ calls[c].credentials.email = None
    /\ ErrorOf(c) = Some(TheRealmRequiredError)

\* the login asked the directory and the caller has not shown that it knows
\* the password: no account matches, or the password is not the account's, or
\* the lookup or the comparison answered with an error
PasswordNotShown(c) ==
  /\ LoginDone(c)
  /\ calls[c].lookups > 0
  /\ \/ AccountOf(c) = None
     \/ ~PasswordIsCorrect(AccountOf(c)[1], calls[c].credentials.password)
     \/ calls[c].faults \cap {findOneError, compareError} # {}

\* C17: a login ends with LOGIN_FAILED_EMAIL_NOT_VERIFIED only when an
\* account matched the query, the password is that account's and the comparison
\* answered without error; every login that asked the directory without the
\* right password, or whose comparison failed with an error, ends with the one
\* LoginFailed error, the same whether the account is verified or not.
C17_VerificationStateNotRevealed ==
  \A c \in Calls :
    /\ (LoginDone(c) /\ HasCode(ErrorOf(c), "LOGIN_FAILED_EMAIL_NOT_VERIFIED")) =>
         /\ AccountOf(c) # None
         /\ PasswordIsCorrect(AccountOf(c)[1], calls[c].credentials.password)
         /\ calls[c].faults = {}
    /\ PasswordNotShown(c) =>
         calls[c].out = <<[err |-> Some(TheLoginFailedError), result |-> None]>>

\* a login for the unverified account with a wrong password has ended with
\* LoginFailed, email verification being required
C17_Witness ==
  \E c \in Calls :
    /\ PasswordNotShown(c)
    /\ settings.emailVerificationRequired
    /\ AccountOf(c) # None
    /\ ~AccountOf(c)[1].emailVerified
    /\ calls[c].credentials.password = Some(<<"q">>)
    /\ calls[c].faults = {}
    /\ ErrorOf(c) = Some(TheLoginFailedError)

-----------------------------------------------------------------------------
(* Properties of the errors of the stores in logout and confirm *)

LookupErrors == {findByIdError, findAccountError}

\* C15: a logout or confirm to which a store has answered with an error has
\* ended, and fn got that error object itself and nothing else; when the error
\* was one of the token lookup or of the account fetch, the call never came to
\* its destroy or save and both stores are as they were when the call was made.
C15_StoreErrorsVerbatim ==
  \A c \in Calls :
    (calls[c].op \in {"logout", "confirm"} /\ calls[c].faults # {}) =>
      /\ calls[c].pc = "done"
      /\ \E e \in calls[c].faults :
           /\ calls[c].faults = {e}
           /\ calls[c].out = <<[err |-> Some(e), result |-> None]>>
      /\ calls[c].faults \cap LookupErrors # {} =>
           /\ tokens = calls[c].tokens0
           /\ accounts = calls[c].accounts0

\* a confirm with the account's token has ended with the error of save
C15_Witness ==
  \E c \in Calls :
    /\ ConfirmDone(c)
    /\ AccountAtCall(c) # None
    /\ AccountAtCall(c)[1].verificationToken = calls[c].token
    /\ calls[c].out = <<[err |-> Some(saveError), result |-> None]>>

-----------------------------------------------------------------------------
(* Properties of the Account Directory *)

\* C18: a step that changes the Account Directory is the save of a confirm;
\* it changes the one account the confirm addresses, in its emailVerified and
\* verificationToken at most; no step adds or removes an account, and no step
\* makes a verified account unverified.  So no step of login or of logout
\* changes an account.
C18_AccountsOnlyVerified ==
  [][accounts' # accounts =>
       /\ DOMAIN accounts' = DOMAIN accounts
       /\ \E c \in Calls :
            /\ calls[c].op = "confirm"
            /\ calls[c].pc = "save"
            /\ calls[c].uid \in DOMAIN accounts
            /\ \A id \in DOMAIN accounts \ {calls[c].uid} :
                 accounts'[id] = accounts[id]
            /\ accounts'[calls[c].uid] =
                 [accounts[calls[c].uid] EXCEPT
                    !.emailVerified = accounts'[calls[c].uid].emailVerified,
                    !.verificationToken = accounts'[calls[c].uid].verificationToken]
       /\ \A id \in DOMAIN accounts :
            accounts[id].emailVerified => accounts'[id].emailVerified]_vars

\* a confirm has changed account 1, and a login and nothing else has been made
\* since: the account is as the confirm left it
C18_Witness ==
  \E c \in Calls :
    /\ LoginDone(c)
    /\ calls[c].lookups > 0
    /\ accounts # InitAccounts
    /\ accounts[1] = [InitAccounts[1] EXCEPT !.emailVerified = TRUE,
                                             !.verificationToken = None]

-----------------------------------------------------------------------------
(* Properties of the include argument *)

\* the ways of writing "user" in upper and lower case
UserSpellings ==
  {<<c1, c2, c3, c4>> : c1 \in {"u", "U"}, c2 \in {"s", "S"}, c3 \in {"e", "E"},
                        c4 \in {"r", "R"}}

\* the include argument, as it was given, asks for the user
AsksForUser(include) ==
  /\ include # None
  /\ IF include[1].kind = "array"
     THEN \E i \in 1..Len(include[1].v) : include[1].v[i] \in UserSpellings
     ELSE include[1].v \in UserSpellings

\* C19: the token a successful login passes to fn carries the account the
\* login resolved as its __data.user exactly when the include argument is the
\* string "user", in any case, or a list with that string in it; otherwise,
\* and when include is not given, it carries none; the token's own user
\* property, the accessor of the relation, is the one it was created with.
C19_UserAttachedWhenIncluded ==
  \A c \in Calls :
    LoginSucceeded(c) =>
      /\ calls[c].out[1].result[1].data_user =
           (IF AsksForUser(calls[c].include0) THEN AccountOf(c) ELSE None)
      /\ AccountOf(c) # None
      /\ calls[c].out[1].result[1].user = "relation"

\* a login with include ['Roles', 'USER'] has succeeded and its token carries
\* account b
C19_Witness ==
  \E c \in Calls :
    /\ LoginSucceeded(c)
    /\ calls[c].include0 =
         Some(Arr(<< <<"R", "o", "l", "e", "s">>, <<"U", "S", "E", "R">> >>))
    /\ calls[c].out[1].result[1].data_user = Some(accounts[2])

-----------------------------------------------------------------------------
(* Properties of hasPassword *)

\* the login found an account, and no plaintext was given or the account
\* has no password hash
NothingToCompare(c) ==
  /\ calls[c].op = "login"
  /\ calls[c].lookups > 0
  /\ findOneError \notin calls[c].faults
  /\ AccountOf(c) # None
  /\ \/ ~TruthyStr(calls[c].credentials.password)
     \/ ~TruthyStr(AccountOf(c)[1].password)

\* C20: a login that found an account, with a missing or empty plaintext or
\* with an account that has no password hash, never waits for the hash
\* comparison and gets no answer from it; once findOne has answered it has
\* ended with the LoginFailed error, and it leaves the Session Store as it was.
C20_NoCompareWithoutPasswordOrHash ==
  \A c \in Calls :
    NothingToCompare(c) =>
      /\ calls[c].pc \in {"findOne", "done"}
      /\ compareError \notin calls[c].faults
      /\ tokens = calls[c].tokens0
      /\ calls[c].pc = "done" =>
           calls[c].out = <<[err |-> Some(TheLoginFailedError), result |-> None]>>

\* a login for account c, which has no password hash, with the password "p"
\* has ended
C20_Witness ==
  \E c \in Calls :
    /\ LoginDone(c)
    /\ NothingToCompare(c)
    /\ AccountOf(c)[1].password = None
    /\ calls[c].credentials.password = Some(<<"p">>)

-----------------------------------------------------------------------------
(* Properties of the hook before create *)

HookDone(c) == calls[c].op = "create" /\ calls[c].pc = "done"

\* C21: when the hook before the remote create has run, the request body has
\* no truthy emailVerified; a body whose emailVerified was truthy has
\* emailVerified false and is otherwise as it was given, every other body is
\* as it was given; and next has been called once, with no error.
C21_CreateNeverVerified ==
  \A c \in Calls :
    HookDone(c) =>
      /\ calls[c].body # None => ~Truthy(calls[c].body[1].emailVerified)
      /\ calls[c].body =
           (IF calls[c].body0 # None /\ Truthy(calls[c].body0[1].emailVerified)
            THEN Some([calls[c].body0[1] EXCEPT !.emailVerified = Some(Bool(FALSE))])
            ELSE calls[c].body0)
      /\ calls[c].out = <<[err |-> None, result |-> None]>>

\* the hook has run on a body with emailVerified true, an email and a password
C21_Witness ==
  \E c \in Calls :
    /\ HookDone(c)
    /\ calls[c].body0 # None
    /\ calls[c].body0[1].emailVerified = Some(Bool(TRUE))
    /\ calls[c].body =
         Some([emailVerified |-> Some(Bool(FALSE)), email |-> Some(<<"x">>),
               password |-> Some(<<"p">>)])

-----------------------------------------------------------------------------
(* Properties of validatePassword *)

ValidatePasswordDone(c) == calls[c].op = "validatePassword" /\ calls[c].pc = "done"

IsNonEmptyString(value) ==
  value # None /\ value[1].kind = "string" /\ Len(value[1].v) > 0

\* C22: validatePassword returns true for a string that is not empty, and for
\* nothing else: for the empty string, for a missing value and for a value
\* that is not a string it ends with the error 'Invalid password: ...' whose
\* statusCode is 422, and returns nothing.
C22_OnlyNonEmptyStringsValid ==
  \A c \in Calls :
    ValidatePasswordDone(c) =>
      /\ Len(calls[c].out) = 1
      /\ IF IsNonEmptyString(calls[c].plain)
         THEN calls[c].out[1] = [err |-> None, result |-> Some(TRUE)]
         ELSE /\ calls[c].out[1].result = None
              /\ calls[c].out[1].err # None
              /\ calls[c].out[1].err[1].statusCode = Some(422)
              /\ calls[c].out[1].err[1].message =
                   <<"Invalid password: ", calls[c].plain>>

\* validatePassword('') has ended with the error of status 422
C22_Witness ==
  \E c \in Calls :
    /\ ValidatePasswordDone(c)
    /\ calls[c].plain = Some(Str(<<>>))
    /\ ErrorOf(c) # None
    /\ ErrorOf(c)[1].statusCode = Some(422)

-----------------------------------------------------------------------------
(* Properties of confirm and the accounts without a verificationToken *)

\* C23: a confirm ends with success only when the account it addresses held
\* a verificationToken when the call was made and the token of the call is
\* that one; a confirm for an account that held no verificationToken, with a
\* token or without, does not end with success and leaves the account's
\* emailVerified as it was.
C23_NoConfirmWithoutPendingToken ==
  \A c \in Calls :
    ConfirmDone(c) =>
      /\ calls[c].out = TheSuccess =>
           /\ AccountAtCall(c) # None
           /\ AccountAtCall(c)[1].verificationToken # None
           /\ AccountAtCall(c)[1].verificationToken = calls[c].token
      /\ (AccountAtCall(c) # None /\ AccountAtCall(c)[1].verificationToken = None) =>
           /\ calls[c].out # TheSuccess
           /\ accounts[calls[c].uid].emailVerified = AccountAtCall(c)[1].emailVerified

-----------------------------------------------------------------------------
(* Properties of concurrent logouts *)

\* the Session Store has answered the destroy of the logout without error,
\* which is when the logout reports success
Destroyed(c) == LogoutDone(c) /\ calls[c].out = TheSuccess

TokenNotFound(c) ==
  /\ LogoutDone(c)
  /\ Len(calls[c].out) = 1
  /\ ErrorOf(c) # None
  /\ ErrorOf(c)[1].message = TheTokenNotFoundMessage

\* two logouts in flight or ended, made with the same id while the token
\* with that id was in the Session Store, the store answering both without
\* an error of its own
SameTokenLogouts(c, d) ==
  /\ c # d
  /\ calls[c].op = "logout" /\ calls[d].op = "logout"
  /\ calls[c].tokenId = calls[d].tokenId
  /\ calls[c].tokenId \in Ids(calls[c].tokens0) \cap Ids(calls[d].tokens0)
  /\ calls[c].faults = {} /\ calls[d].faults = {}

\* C24: of two logouts made for the same token while it exists, however
\* their steps interleave, the token is not destroyed for both; when both
\* have ended, one has reported success and the other the token-not-found
\* error.
C24_OneLogoutWins ==
  \A c, d \in Calls :
    SameTokenLogouts(c, d) =>
      /\ ~(Destroyed(c) /\ Destroyed(d))
      /\ (LogoutDone(c) /\ LogoutDone(d)) =>
           \/ Destroyed(c) /\ TokenNotFound(d)
           \/ Destroyed(d) /\ TokenNotFound(c)

=============================================================================
